---------------------------- MODULE Spec2Model ----------------------------
(***************************************************************************)
(* Model of the productinfo price engine: the Azure vendor adapter         *)
(* (pkg/productinfo/azure/productinfo_azure.go) with its region resolver,  *)
(* machine-type normalizer and rate-card ingestion, and the renewal        *)
(* manager declared in pkg/productinfo/types.go.                           *)
(*                                                                         *)
(* Go strings are TLA+ strings; Len, SubSeq and \o act on them character   *)
(* by character.  Prices are naturals (a fixed-point unit of currency).    *)
(***************************************************************************)
EXTENDS Integers, Sequences, FiniteSets, TLC

VARIABLES
    \* AzureInfoer.Initialize
    pc,            \* position of Initialize
    regions,       \* result of GetRegions: the set of known region ids
    meters,        \* *result.Meters, the rate card's meter list
    idx,           \* number of meters the loop has consumed
    allPrices,     \* region -> instance type -> Price
    prevPrices,    \* allPrices before the last loop iteration
    outcome,       \* what the last loop iteration did with its meter
    \* machine-type normalizer exercised on its own
    mtPc, mtIn, mtOut, mtTwice, mtVars,
    \* region resolver exercised on its own
    rgPc, rgLabel, rgRegions, rgOut,
    \* renewal manager
    refreshes,         \* the vendor refreshes in flight
    cache,         \* the Cache Store: key -> value
    before,        \* per vendor, its cache entries when its refresh started
    lastRun,       \* per vendor, how its last finished refresh ended
    cycle,         \* number of renewal cycles triggered so far
    dropped,       \* the vendors whose trigger the last cycle dropped
    served,        \* the answer to the last cache read
    \* Price Query API and the adapters' current-price calls
    vmAttrStore,   \* the Cache Store of the query side: price key -> Price
    request,       \* the last call made
    response       \* what that call returned

ingestVars == <<pc, regions, meters, idx, allPrices, prevPrices, outcome>>
mtVarsAll == <<mtPc, mtIn, mtOut, mtTwice, mtVars>>
rgVars == <<rgPc, rgLabel, rgRegions, rgOut>>
renewVars == <<refreshes, cache, before, lastRun, cycle, dropped, served>>
queryVars == <<vmAttrStore, request, response>>
vars == <<ingestVars, mtVarsAll, rgVars, renewVars, queryVars>>

notIngest == <<mtVarsAll, rgVars, renewVars, queryVars>>
notMachineType == <<ingestVars, rgVars, renewVars, queryVars>>
notRegion == <<ingestVars, mtVarsAll, renewVars, queryVars>>
notRenewal == <<ingestVars, mtVarsAll, rgVars, queryVars>>
notQuery == <<ingestVars, mtVarsAll, rgVars, renewVars>>

---------------------------------------------------------------------------
(* Go's strings, strconv and regexp packages, as far as the adapter uses   *)
(* them.                                                                   *)

Char(s, i) == SubSeq(s, i, i)

Digits == {"0", "1", "2", "3", "4", "5", "6", "7", "8", "9"}

UpperLetters == "ABCDEFGHIJKLMNOPQRSTUVWXYZ"

LowerLetters == "abcdefghijklmnopqrstuvwxyz"

IsUpper(c) == \E i \in 1..26 : Char(UpperLetters, i) = c

IsLower(c) == \E i \in 1..26 : Char(LowerLetters, i) = c

ToLowerChar(c) ==
    IF IsUpper(c)
    THEN Char(LowerLetters, CHOOSE i \in 1..26 : Char(UpperLetters, i) = c)
    ELSE c

ToUpperChar(c) ==
    IF IsLower(c)
    THEN Char(UpperLetters, CHOOSE i \in 1..26 : Char(LowerLetters, i) = c)
    ELSE c

RECURSIVE ToLower(_)
ToLower(s) ==
    IF s = "" THEN "" ELSE ToLowerChar(Char(s, 1)) \o ToLower(SubSeq(s, 2, Len(s)))

\* strings.Title: a letter is upper-cased when it starts a word, that is when
\* no letter, digit or underscore precedes it.
IsSeparator(c) == ~(IsUpper(c) \/ IsLower(c) \/ c \in Digits \/ c = "_")

RECURSIVE TitleFrom(_, _)
TitleFrom(s, i) ==
    IF i > Len(s) THEN ""
    ELSE (IF i = 1 \/ IsSeparator(Char(s, i - 1))
          THEN ToUpperChar(Char(s, i)) ELSE Char(s, i)) \o TitleFrom(s, i + 1)

Title(s) == TitleFrom(s, 1)

Contains(s, sub) ==
    \E i \in 1..(Len(s) + 1) :
        i + Len(sub) - 1 <= Len(s) /\ SubSeq(s, i, i + Len(sub) - 1) = sub

HasPrefix(s, p) == Len(p) <= Len(s) /\ SubSeq(s, 1, Len(p)) = p

HasSuffix(s, x) == Len(x) <= Len(s) /\ SubSeq(s, Len(s) - Len(x) + 1, Len(s)) = x

TrimSuffix(s, x) == IF HasSuffix(s, x) THEN SubSeq(s, 1, Len(s) - Len(x)) ELSE s

\* strings.Split(s, sep) for a one-character separator: n separators give
\* n + 1 parts, empty parts included.
RECURSIVE SplitFrom(_, _, _, _)
SplitFrom(s, sep, i, cur) ==
    IF i > Len(s) THEN <<cur>>
    ELSE IF Char(s, i) = sep THEN <<cur>> \o SplitFrom(s, sep, i + 1, "")
    ELSE SplitFrom(s, sep, i + 1, cur \o Char(s, i))

Split(s, sep) == SplitFrom(s, sep, 1, "")

\* strings.Replace(s, old, new, -1): every non-overlapping occurrence, left
\* to right.
RECURSIVE ReplaceAll(_, _, _)
ReplaceAll(s, old, new) ==
    IF s = "" THEN ""
    ELSE IF HasPrefix(s, old)
    THEN new \o ReplaceAll(SubSeq(s, Len(old) + 1, Len(s)), old, new)
    ELSE Char(s, 1) \o ReplaceAll(SubSeq(s, 2, Len(s)), old, new)

\* regionParts.String (and fmt's %s of a regionParts): the parts, concatenated.
RECURSIVE Concat(_)
Concat(parts) ==
    IF parts = <<>> THEN "" ELSE Head(parts) \o Concat(Tail(parts))

\* strconv.Atoi succeeds on an optional sign followed by decimal digits (of a
\* value that fits an int, which every label of the model does).
AtoiOk(s) ==
    LET body == IF s # "" /\ Char(s, 1) \in {"+", "-"} THEN SubSeq(s, 2, Len(s)) ELSE s
    IN  body # "" /\ \A i \in 1..Len(body) : Char(body, i) \in Digits

\* A regular expression anchored at both ends is a sequence of items, each a
\* character class (or "." when any is TRUE) with a quantifier: "1", "?" or "*".
One(cs) == [cs |-> cs, any |-> FALSE, q |-> "1"]

Opt(cs) == [cs |-> cs, any |-> FALSE, q |-> "?"]

Star(cs) == [cs |-> cs, any |-> FALSE, q |-> "*"]

Plus(cs) == <<One(cs), Star(cs)>>

AnyChar == <<[cs |-> {}, any |-> TRUE, q |-> "1"]>>

Lit(s) == [i \in 1..Len(s) |-> One({Char(s, i)})]

RECURSIVE MatchFrom(_, _, _, _)
MatchFrom(s, i, p, j) ==
    IF j > Len(p) THEN i > Len(s)
    ELSE LET it == p[j]
             here == i <= Len(s) /\ (it.any \/ Char(s, i) \in it.cs)
         IN  CASE it.q = "1" -> here /\ MatchFrom(s, i + 1, p, j + 1)
               [] it.q = "?" -> MatchFrom(s, i, p, j + 1)
                                \/ (here /\ MatchFrom(s, i + 1, p, j + 1))
               [] it.q = "*" -> MatchFrom(s, i, p, j + 1)
                                \/ (here /\ MatchFrom(s, i + 1, p, j))

MatchString(p, s) == MatchFrom(s, 1, p, 1)

---------------------------------------------------------------------------
(* The adapter's tables.                                                   *)

\* regionCodeMappings[k], "" for a missing key as a Go map gives
regionCodeMappings(k) ==
    CASE k = "ap" -> "asia"
      [] k = "au" -> "australia"
      [] k = "br" -> "brazil"
      [] k = "ca" -> "canada"
      [] k = "eu" -> "europe"
      [] k = "fr" -> "france"
      [] k = "in" -> "india"
      [] k = "ja" -> "japan"
      [] k = "kr" -> "korea"
      [] k = "uk" -> "uk"
      [] k = "us" -> "us"
      [] OTHER -> ""

PromoClass == {"_", "P", "r", "o", "m"}

VersionClass == {"_", "v"} \cup Digits

\* "^BASIC.A\\d+[_Promo]*$": the dot is unescaped and accepts any character
mtBasic == Lit("BASIC") \o AnyChar \o Lit("A") \o Plus(Digits) \o <<Star(PromoClass)>>

mtStandardA == Lit("A") \o Plus(Digits) \o <<Star(PromoClass)>>

mtStandardB ==
    Lit("Standard_B") \o Plus(Digits) \o <<Opt({"m"}), Star(VersionClass), Star(PromoClass)>>

mtStandardD ==
    Lit("Standard_D") \o <<One(Digits), Star(VersionClass), Star(PromoClass)>>

mtStandardE ==
    Lit("Standard_E") \o Plus(Digits) \o <<Opt({"i"}), Star(VersionClass), Star(PromoClass)>>

mtStandardF == Lit("Standard_F") \o Plus(Digits) \o <<Star(VersionClass), Star(PromoClass)>>

mtStandardG == Lit("Standard_G") \o Plus(Digits) \o <<Star(VersionClass), Star(PromoClass)>>

mtStandardL == Lit("Standard_L") \o Plus(Digits) \o <<Star(VersionClass), Star(PromoClass)>>

mtStandardM ==
    Lit("Standard_M") \o Plus(Digits)
        \o <<Star({"m", "|", "t", "l"}), One({"s"}), Star(VersionClass), Star(PromoClass)>>

mtStandardN ==
    Lit("Standard_N") \o <<One({"C", "|", "D", "V"})>> \o Plus(Digits)
        \o <<Opt({"r"}), Star(VersionClass), Star(PromoClass)>>

---------------------------------------------------------------------------
(* Machine-type normalizer.  A call either returns a value or panics.      *)

Ret(v) == [panic |-> FALSE, val |-> v]

Panic(msg) == [panic |-> TRUE, val |-> msg]

\* AzureInfoer.transformMachineType
transformMachineType(mt) ==
    IF MatchString(mtBasic, mt)
    THEN LET parts == Split(mt, ".")
         IN  IF Len(parts) < 2
             THEN Panic("index out of range [1] with length 1")
             ELSE Ret(Title(ToLower(parts[1])) \o "_" \o parts[2])
    ELSE IF MatchString(mtStandardA, mt) THEN Ret("Standard_" \o mt)
    ELSE Ret(mt)

\* addSuffix losing the version and promo parts of the name
addSuffixNoTail(mt, suffixes) ==
    LET parts == Split(mt, "_")
    IN  [i \in 1..Len(suffixes) |-> parts[1] \o "_" \o parts[2] \o suffixes[i]]

\* the trailing "_"-separated parts of mt after the second, each with its "_"
RECURSIVE SuffixOf(_)
SuffixOf(parts) ==
    IF parts = <<>> THEN "" ELSE "_" \o Head(parts) \o SuffixOf(Tail(parts))

\* AzureInfoer.addSuffix
addSuffix(mt, suffixes) ==
    LET parts == Split(mt, "_")
        suffix == IF Len(parts) > 2 THEN SuffixOf(SubSeq(parts, 3, Len(parts))) ELSE ""
    IN  [i \in 1..Len(suffixes) |-> parts[1] \o "_" \o parts[2] \o suffixes[i] \o suffix]

\* AzureInfoer.getMachineTypeVariants
getMachineTypeVariants(mt) ==
    CASE MatchString(mtStandardB, mt) -> <<mt \o "s">>
      [] MatchString(mtStandardD, mt) ->
            LET dsType == ReplaceAll(mt, "Standard_D", "Standard_DS")
            IN  <<addSuffix(mt, <<"s">>)[1], dsType>>
                    \o addSuffix(dsType, <<"-1", "-2", "-4", "-8">>)
      [] MatchString(mtStandardE, mt) ->
            addSuffix(mt, <<"s", "-2s", "-4s", "-8s", "-16s", "-32s">>)
      [] MatchString(mtStandardF, mt) -> addSuffix(mt, <<"s">>)
      [] MatchString(mtStandardG, mt) ->
            LET gsType == ReplaceAll(mt, "Standard_G", "Standard_GS")
            IN  <<gsType>> \o addSuffix(gsType, <<"-4", "-8", "-16">>)
      [] MatchString(mtStandardL, mt) -> addSuffix(mt, <<"s">>)
      [] MatchString(mtStandardM, mt) /\ HasSuffix(mt, "ms") ->
            addSuffix(TrimSuffix(mt, "ms"), <<"-2ms", "-4ms", "-8ms", "-16ms", "-32ms">>)
      [] MatchString(mtStandardM, mt) /\ (HasSuffix(mt, "ls") \/ HasSuffix(mt, "ts")) ->
            <<>>
      [] MatchString(mtStandardM, mt) /\ HasSuffix(mt, "s") ->
            addSuffix(TrimSuffix(mt, "s"), <<"", "m">>)
      [] MatchString(mtStandardN, mt) -> addSuffix(mt, <<"s">>)
      [] OTHER -> <<>>


---------------------------------------------------------------------------
(* Region resolver.  A call returns a region id, returns an error, or      *)
(* panics.                                                                 *)

Found(id) == [panic |-> FALSE, err |-> FALSE, val |-> id]

NotFound(label) == [panic |-> FALSE, err |-> TRUE, val |-> "couldn't find region: " \o label]

\* AzureInfoer.checkRegionID: regions is the key set of the regions map
checkRegionID(regionID, regs) == \E region \in regs : regionID = region

\* regionIds of AzureInfoer.toRegionID; rp[1:len(rp)-1] panics when the
\* label is a single token that parses as an integer (low bound 1 > high 0)
regionIds(rp) ==
    LET regionCode == regionCodeMappings(rp[1])
        lastPart == rp[Len(rp)]
    IN  IF AtoiOk(lastPart)
        THEN IF Len(rp) < 2 THEN <<>>
             ELSE LET mid == Concat(SubSeq(rp, 2, Len(rp) - 1))
                  IN  <<regionCode \o mid \o lastPart, mid \o regionCode \o lastPart>>
        ELSE LET rest == Concat(SubSeq(rp, 2, Len(rp)))
             IN  <<regionCode \o rest, rest \o regionCode>>

\* AzureInfoer.toRegionID
toRegionID(meterRegion, regs) ==
    LET rp == Split(ToLower(meterRegion), " ")
        ids == regionIds(rp)
    IN  IF ids = <<>>
        THEN [panic |-> TRUE, err |-> FALSE, val |-> "slice bounds out of range [1:0]"]
        ELSE IF checkRegionID(ids[1], regs) THEN Found(ids[1])
        ELSE IF checkRegionID(ids[2], regs) THEN Found(ids[2])
        ELSE NotFound(meterRegion)


---------------------------------------------------------------------------
(* Rate-card ingestion: AzureInfoer.Initialize.                            *)
(*                                                                         *)
(* A meter is [category, tags, region, sub, rates]: MeterCategory, the     *)
(* number of MeterTags, MeterRegion, MeterSubCategory and the values of    *)
(* MeterRates.  A Price is [OnDemandPrice, SpotPrice], SpotPrice a         *)
(* function from zone to price, empty for a nil map.                       *)

ZeroPrice == [OnDemandPrice |-> 0, SpotPrice |-> <<>>]

\* allPrices[region][instanceType], the zero Price for a missing key
PriceAt(table, region, instanceType) ==
    IF region \in DOMAIN table /\ instanceType \in DOMAIN table[region]
    THEN table[region][instanceType]
    ELSE ZeroPrice

\* allPrices[region][instanceType] = price, making the inner map when nil
SetPrice(table, region, instanceType, price) ==
    LET inner == IF region \in DOMAIN table THEN table[region] ELSE <<>>
        inner2 == [t \in DOMAIN inner \cup {instanceType} |->
                      IF t = instanceType THEN price ELSE inner[t]]
    IN  [r \in DOMAIN table \cup {region} |-> IF r = region THEN inner2 ELSE table[r]]

\* the first tier taken for the price
sumRatesFirstTier(rates) == IF rates = <<>> THEN 0 ELSE Head(rates)

\* for _, rate := range v.MeterRates { priceInUsd += *rate }
RECURSIVE sumRates(_)
sumRates(rates) ==
    IF rates = <<>> THEN 0 ELSE Head(rates) + sumRates(Tail(rates))

\* the variants left unwritten
writeVariantsNone(table, region, mts, price) == table

\* for _, mt := range mts { allPrices[region][mt] = price }
RECURSIVE writeVariants(_, _, _, _)
writeVariants(table, region, mts, price) ==
    IF mts = <<>> THEN table
    ELSE writeVariants(SetPrice(table, region, Head(mts), price), region, Tail(mts), price)

\* a fresh Price written instead of the entry's copy
mergePriceFresh(price, region, lowPriority, priceInUsd) ==
    IF ~lowPriority
    THEN [OnDemandPrice |-> priceInUsd, SpotPrice |-> <<>>]
    ELSE [OnDemandPrice |-> 0, SpotPrice |-> (region :> priceInUsd)]

\* lines 181-188: the entry's copy with one of its two fields replaced
mergePrice(price, region, lowPriority, priceInUsd) ==
    IF ~lowPriority
    THEN [price EXCEPT !.OnDemandPrice = priceInUsd]
    ELSE [price EXCEPT !.SpotPrice = (region :> priceInUsd)]

\* the variants given the record's own price instead of the merged entry
storePriceUnmerged(table, region, instanceType, lowPriority, priceInUsd, mts) ==
    LET price == mergePrice(PriceAt(table, region, instanceType), region,
                            lowPriority, priceInUsd)
        written == SetPrice(table, region, instanceType, price)
    IN  writeVariants(written, region, mts,
                      mergePrice(ZeroPrice, region, lowPriority, priceInUsd))

\* lines 178-196: the accepted meter's writes to allPrices
storePrice(table, region, instanceType, lowPriority, priceInUsd, mts) ==
    LET price == mergePrice(PriceAt(table, region, instanceType), region,
                            lowPriority, priceInUsd)
        written == SetPrice(table, region, instanceType, price)
    IN  writeVariants(written, region, mts, price)

Skip(kind) ==
    [kind |-> kind, region |-> "", type |-> "", low |-> FALSE, price |-> 0, mts |-> <<>>]

\* Lines 145-177 and 192 of the loop body: what the iteration decides about
\* meter v before it touches allPrices ("panic" when a call it makes panics).
readMeter(v, regs) ==
    IF ~(v.category = "Virtual Machines" /\ v.tags = 0 /\ v.region # "")
    THEN Skip("filtered")
    ELSE IF Contains(v.sub, "(Windows)") THEN Skip("windows")
    ELSE LET rid == toRegionID(v.region, regs)
             category == Split(v.sub, " ")
         IN  IF rid.panic THEN Skip("panic")
             ELSE IF rid.err THEN Skip("noregion")
             ELSE IF Len(category) < 2 THEN Skip("badsub")
             ELSE IF category[2] \notin {"VM", "VM_Promo"} THEN Skip("badtier")
             ELSE LET raw == IF category[2] = "VM" THEN category[1]
                             ELSE category[1] \o "_Promo"
                      mt == transformMachineType(raw)
                  IN  IF mt.panic THEN Skip("panic")
                      ELSE IF Len(v.rates) < 1 THEN Skip("norates")
                      ELSE [kind |-> "accepted", region |-> rid.val, type |-> mt.val,
                            low |-> Contains(v.sub, "Low Priority"),
                            price |-> sumRates(v.rates),
                            mts |-> getMachineTypeVariants(mt.val)]

---------------------------------------------------------------------------
(* The inputs the model draws from.                                        *)

MaxMeters == 3

Meter(category, tags, region, sub, rates) ==
    [category |-> category, tags |-> tags, region |-> region, sub |-> sub, rates |-> rates]

VM(region, sub, rates) == Meter("Virtual Machines", 0, region, sub, rates)

MeterSet ==
    { VM("US East", "Standard_B1s VM", <<5>>),
      VM("US East", "Standard_B1s VM Low Priority", <<2>>),
      VM("US East", "Standard_B1 VM", <<7>>),
      VM("US East", "Standard_B1 VM Low Priority", <<3>>),
      VM("US West 2", "Standard_D2 VM", <<3, 4>>),
      VM("US East", "A3 VM_Promo Low Priority", <<1, 1, 2>>),
      VM("US East", "Standard_D2 VM (Windows)", <<9>>),
      Meter("Storage", 0, "US East", "Standard_B1s VM", <<9>>),
      Meter("Virtual Machines", 1, "US East", "Standard_B1s VM", <<9>>),
      VM("", "Standard_B1s VM", <<9>>),
      VM("Mars North", "Standard_B1s VM", <<9>>),
      VM("US East", "Standard_B1s", <<9>>),
      VM("US East", "Standard_B1s Low Priority VM", <<9>>),
      VM("US East", "Standard_B1s VM", <<>>),
      VM("2", "Standard_B1s VM", <<9>>),
      VM("US East", "BASIC_A2 VM", <<>>) }

RECURSIVE SeqsUpTo(_, _)
SeqsUpTo(S, n) ==
    IF n = 0 THEN {<<>>}
    ELSE LET shorter == SeqsUpTo(S, n - 1)
         IN  shorter \cup {Append(q, x) : q \in shorter, x \in S}

MeterLists == SeqsUpTo(MeterSet, MaxMeters)

RegionMaps == {{"eastus", "westus2"}}

\* readMeter tabulated over the inputs
meterOutcome == [v \in MeterSet, regs \in RegionMaps |-> readMeter(v, regs)]

\* One iteration of the loop over *result.Meters (lines 144-199)
processMeter(table, v, regs) ==
    LET o == meterOutcome[v, regs]
    IN  IF o.kind = "accepted"
        THEN storePrice(table, o.region, o.type, o.low, o.price, o.mts)
        ELSE table

NoOutcome == Skip("none")

---------------------------------------------------------------------------
(* AzureInfoer.Initialize as a process.                                    *)

IngestIdle ==
    /\ pc = "idle" /\ regions = {} /\ meters = <<>> /\ idx = 0
    /\ allPrices = <<>> /\ prevPrices = <<>> /\ outcome = NoOutcome

IngestInit ==
    /\ pc = "start" /\ regions = {} /\ meters = <<>> /\ idx = 0
    /\ allPrices = <<>> /\ prevPrices = <<>> /\ outcome = NoOutcome

\* a.GetRegions() fails: return nil, err
GetRegionsFails ==
    /\ pc = "start"
    /\ pc' = "failed"
    /\ UNCHANGED <<regions, meters, idx, allPrices, prevPrices, outcome>>
    /\ UNCHANGED notIngest

GetRegionsOk ==
    /\ pc = "start"
    /\ \E regs \in RegionMaps : regions' = regs
    /\ pc' = "ratecard"
    /\ UNCHANGED <<meters, idx, allPrices, prevPrices, outcome>>
    /\ UNCHANGED notIngest

\* a.rateCardClient.Get fails: return nil, err
RateCardFails ==
    /\ pc = "ratecard"
    /\ pc' = "failed"
    /\ UNCHANGED <<regions, meters, idx, allPrices, prevPrices, outcome>>
    /\ UNCHANGED notIngest

RateCardOk ==
    /\ pc = "ratecard"
    /\ \E ms \in MeterLists : meters' = ms
    /\ pc' = "loop"
    /\ UNCHANGED <<regions, idx, allPrices, prevPrices, outcome>>
    /\ UNCHANGED notIngest

\* one iteration of for _, v := range *result.Meters
LoopStep ==
    /\ pc = "loop" /\ idx < Len(meters)
    /\ outcome' = meterOutcome[meters[idx + 1], regions]
    /\ allPrices' = processMeter(allPrices, meters[idx + 1], regions)
    /\ pc' = IF outcome'.kind = "panic" THEN "panicked" ELSE "loop"
    /\ prevPrices' = allPrices
    /\ idx' = idx + 1
    /\ UNCHANGED <<regions, meters>>
    /\ UNCHANGED notIngest

\* return allPrices, nil
ReturnPrices ==
    /\ pc = "loop" /\ idx = Len(meters)
    /\ pc' = "returned"
    /\ UNCHANGED <<regions, meters, idx, allPrices, prevPrices, outcome>>
    /\ UNCHANGED notIngest

---------------------------------------------------------------------------
(* The normalizer and the resolver as called on their own.                 *)

SkuPrefixes ==
    {"BASIC.A", "BASIC_A", "BASIC A", "BASICA", "Basic_A", "A", "Standard_A", "D",
     "Standard_B", "Standard_D", "Standard_DS", "Standard_E", "Standard_F",
     "Standard_G", "Standard_L", "Standard_M", "Standard_NC", "Standard_N|"}

SkuSizes == {"2", "11"}

SkuSuffixes == {"", "_v3", "v3", "_Promo", "_v2_Promo", "s", "ms", "_"}

RawSkus == {p \o n \o x : p \in SkuPrefixes, n \in SkuSizes, x \in SkuSuffixes}

NoRet == [panic |-> FALSE, val |-> ""]

MtIdle == mtPc = "idle" /\ mtIn = "" /\ mtOut = NoRet /\ mtTwice = NoRet /\ mtVars = <<>>

MtInit == mtPc = "in" /\ mtIn \in RawSkus /\ mtOut = NoRet /\ mtTwice = NoRet /\ mtVars = <<>>

\* instanceType = a.transformMachineType(instanceType)
Classify ==
    /\ mtPc = "in"
    /\ mtOut' = transformMachineType(mtIn)
    /\ mtPc' = IF mtOut'.panic THEN "panicked" ELSE "classified"
    /\ UNCHANGED <<mtIn, mtTwice, mtVars>>
    /\ UNCHANGED notMachineType

\* the canonical name classified once more
ClassifyAgain ==
    /\ mtPc = "classified"
    /\ mtTwice' = transformMachineType(mtOut.val)
    /\ mtPc' = IF mtTwice'.panic THEN "panicked" ELSE "reclassified"
    /\ UNCHANGED <<mtIn, mtOut, mtVars>>
    /\ UNCHANGED notMachineType

\* mts := a.getMachineTypeVariants(instanceType)
Expand ==
    /\ mtPc = "reclassified"
    /\ mtVars' = getMachineTypeVariants(mtOut.val)
    /\ mtPc' = "expanded"
    /\ UNCHANGED <<mtIn, mtOut, mtTwice>>
    /\ UNCHANGED notMachineType

RegionLabels ==
    {"US East", "US West 2", "us east", "EU North", "North Europe", "UK South",
     "AP Southeast", "US Gov Virginia", "US  East", "Mars North", "US", "East",
     "2", "-7", "US 2", "AU East 2", "ZZ East", "East US", "KR South 1x", "JA East +1"}

RegionMapChoices ==
    {{}, {"eastus", "westus2"}, {"useast", "eastus", "uswest2", "us"},
     {"northeurope", "europenorth", "uksouth", "southeastasia", "us2", "2"},
     {"usgovvirginia", "australiaeast2", "east", "japaneast+1", "-7"}}

NoRegion == [panic |-> FALSE, err |-> FALSE, val |-> ""]

RgIdle == rgPc = "idle" /\ rgLabel = "" /\ rgRegions = {} /\ rgOut = NoRegion

RgInit ==
    /\ rgPc = "in" /\ rgLabel \in RegionLabels /\ rgRegions \in RegionMapChoices
    /\ rgOut = NoRegion

\* region, err := a.toRegionID(*v.MeterRegion, regions)
Resolve ==
    /\ rgPc = "in"
    /\ rgOut' = toRegionID(rgLabel, rgRegions)
    /\ rgPc' = IF rgOut'.panic THEN "panicked" ELSE "done"
    /\ UNCHANGED <<rgLabel, rgRegions>>
    /\ UNCHANGED notRegion


---------------------------------------------------------------------------
(* Renewal manager (CachingProductInfo) over the Cache Store               *)
(* (ProductStorer).  A refresh of a vendor fetches that vendor's data,     *)
(* which may fail, and then sets the vendor's keys one Set at a time.  The *)
(* data a refresh fetches is identified by the number of the cycle that    *)
(* started it.                                                             *)

MaxCycles == 3

Vendors == {"azure", "ec2"}

\* fmt.Sprintf(RegionKeyTemplate, provider)
RegionKey(provider) == "/banzaicloud.com/recommender/" \o provider \o "/regions/"

\* fmt.Sprintf(PriceKeyTemplate, provider, region, instanceType)
PriceKey(provider, region, instanceType) ==
    "/banzaicloud.com/recommender/" \o provider \o "/" \o region \o "/prices/" \o instanceType

KeysOf(v) == {RegionKey(v), PriceKey(v, "eastus", "Standard_B1s")}

AllKeys == UNION {KeysOf(v) : v \in Vendors}

\* ProductStorer.Get
Get(store, k) ==
    IF k \in DOMAIN store THEN [found |-> TRUE, val |-> store[k]]
    ELSE [found |-> FALSE, val |-> 0]

\* ProductStorer.Set
Set(store, k, x) == [j \in DOMAIN store \cup {k} |-> IF j = k THEN x ELSE store[j]]

InFlight(v) == {t \in refreshes : t.vendor = v}

\* every trigger starts a refresh
mayStartAlways(v) == TRUE

\* whether a cycle's trigger starts a refresh of v: not while one is in flight
mayStart(v) == InFlight(v) = {}

NoRun == [ok |-> FALSE, cycle |-> 0]

NoRead == [key |-> "", found |-> FALSE, val |-> 0]

RenewIdle ==
    /\ refreshes = {} /\ cache = <<>> /\ cycle = 0 /\ dropped = {} /\ served = NoRead
    /\ before = [v \in Vendors |-> [k \in KeysOf(v) |-> Get(<<>>, k)]]
    /\ lastRun = [v \in Vendors |-> NoRun]

RenewInit == RenewIdle

\* the renewal interval elapses: one refresh per vendor is started
StartCycle ==
    /\ cycle < MaxCycles
    /\ cycle' = cycle + 1
    /\ LET starting == {v \in Vendors : mayStart(v)}
       IN  /\ refreshes' = refreshes \cup
                  {[vendor |-> v, cycle |-> cycle + 1, phase |-> "fetching", pending |-> {}] :
                       v \in starting}
           /\ dropped' = Vendors \ starting
           /\ before' = [v \in Vendors |->
                            IF v \in starting THEN [k \in KeysOf(v) |-> Get(cache, k)]
                            ELSE before[v]]
    /\ UNCHANGED <<cache, lastRun, served>>
    /\ UNCHANGED notRenewal

\* the vendor's fetch returns its data
FetchOk(t) ==
    /\ t \in refreshes /\ t.phase = "fetching"
    /\ refreshes' = (refreshes \ {t}) \cup {[t EXCEPT !.phase = "writing", !.pending = KeysOf(t.vendor)]}
    /\ UNCHANGED <<cache, before, lastRun, cycle, dropped, served>>
    /\ UNCHANGED notRenewal

\* a failed fetch invalidating the vendor's entries
afterFailureInvalidate(store, v) == [k \in DOMAIN store \ KeysOf(v) |-> store[k]]

\* what a failed fetch leaves of the store
afterFailure(store, v) == store

\* the vendor's fetch returns an error: logged, the vendor's update is skipped
FetchFails(t) ==
    /\ t \in refreshes /\ t.phase = "fetching"
    /\ refreshes' = (refreshes \ {t}) \cup {[t EXCEPT !.phase = "failed"]}
    /\ cache' = afterFailure(cache, t.vendor)
    /\ UNCHANGED <<before, lastRun, cycle, dropped, served>>
    /\ UNCHANGED notRenewal

\* one Set of the refresh: the key's prior value is replaced
WriteKey(t, k) ==
    /\ t \in refreshes /\ t.phase = "writing" /\ k \in t.pending
    /\ cache' = Set(cache, k, t.cycle)
    /\ refreshes' = (refreshes \ {t}) \cup {[t EXCEPT !.pending = t.pending \ {k}]}
    /\ UNCHANGED <<before, lastRun, cycle, dropped, served>>
    /\ UNCHANGED notRenewal

\* Refreshing -> Idle
FinishRefresh(t) ==
    /\ t \in refreshes /\ t.phase = "writing" /\ t.pending = {}
    /\ refreshes' = refreshes \ {t}
    /\ lastRun' = [lastRun EXCEPT ![t.vendor] = [ok |-> TRUE, cycle |-> t.cycle]]
    /\ UNCHANGED <<cache, before, cycle, dropped, served>>
    /\ UNCHANGED notRenewal

\* Failed -> Idle
SkipVendor(t) ==
    /\ t \in refreshes /\ t.phase = "failed"
    /\ refreshes' = refreshes \ {t}
    /\ lastRun' = [lastRun EXCEPT ![t.vendor] = [ok |-> FALSE, cycle |-> t.cycle]]
    /\ UNCHANGED <<cache, before, cycle, dropped, served>>
    /\ UNCHANGED notRenewal

\* a query caller reads the store
Read(k) ==
    /\ served' = [key |-> k] @@ Get(cache, k)
    /\ UNCHANGED <<refreshes, cache, before, lastRun, cycle, dropped>>
    /\ UNCHANGED notRenewal

---------------------------------------------------------------------------
(* Price Query API (ProductInfo.GetPrice) over the Cache Store, and the    *)
(* adapters' HasShortLivedPriceInfo and GetCurrentPrices.  An average is   *)
(* kept exact, as the pair of its numerator and denominator.               *)

\* a nil map[string]productinfo.Price, and a map that is not nil
NilPrices == [isNil |-> TRUE, entries |-> <<>>]

PricesMap(m) == [isNil |-> FALSE, entries |-> m]

\* a nil error
NoError == ""

\* AzureInfoer.HasShortLivedPriceInfo
azureHasShortLivedPriceInfo == FALSE

\* an empty price map and no error returned
azureGetCurrentPricesEmpty(region) == [prices |-> PricesMap(<<>>), err |-> NoError]

\* AzureInfoer.GetCurrentPrices
azureGetCurrentPrices(region) ==
    [prices |-> NilPrices, err |-> "azure prices cannot be queried on the fly"]

\* the price tables Initialize returns for a few rate cards
RECURSIVE pricesOf(_, _)
pricesOf(ms, regs) ==
    IF ms = <<>> THEN <<>>
    ELSE processMeter(pricesOf(SubSeq(ms, 1, Len(ms) - 1), regs), ms[Len(ms)], regs)

AzureTables ==
    {pricesOf(ms, {"eastus", "westus2"}) :
        ms \in {<<VM("US East", "Standard_B1s VM", <<5>>)>>,
                <<VM("US East", "Standard_B1s VM", <<5>>),
                  VM("US East", "Standard_B1s VM Low Priority", <<2>>)>>,
                <<VM("US West 2", "Standard_D2 VM", <<3, 4>>),
                  VM("US East", "Standard_B1 VM Low Priority", <<3>>)>>}}

\* price tables of a vendor with per-zone spot prices
Ec2Price(onDemand, spot) == [OnDemandPrice |-> onDemand, SpotPrice |-> spot]

Ec2Tables ==
    {("eu-west-1" :> ("m5.large" :> Ec2Price(10, ("eu-west-1a" :> 6)))),
     ("eu-west-1" :> ("m5.large" :> Ec2Price(10, ("eu-west-1a" :> 4) @@ ("eu-west-1b" :> 9)))),
     ("eu-west-1" :> ("m5.large" :> Ec2Price(12, <<>>)))}

PriceTables(v) == IF v = "azure" THEN AzureTables ELSE Ec2Tables

QueryRegions == {"eastus", "westus2", "eu-west-1", "mars"}

QueryTypes == {"Standard_B1s", "Standard_B1", "Standard_DS2-4", "m5.large"}

ZoneLists ==
    {<<>>, <<"eastus">>, <<"eastus", "westus2">>, <<"eu-west-1a">>, <<"eu-west-1b">>,
     <<"eu-west-1a", "eu-west-1b">>, <<"eu-west-1b", "eu-west-1a">>,
     <<"eu-west-1a", "eu-west-1b", "eu-west-1c">>}

\* ProductInfoer.HasShortLivedPriceInfo of vendor v's adapter
hasShortLivedPriceInfo(v) == IF v = "azure" THEN azureHasShortLivedPriceInfo ELSE TRUE

\* the spot prices a vendor with short-lived prices reports for a region
currentPrices(region) ==
    IF region = "eu-west-1"
    THEN PricesMap("m5.large" :> Ec2Price(0, ("eu-west-1a" :> 7)))
    ELSE PricesMap(<<>>)

\* ProductInfoer.GetCurrentPrices of vendor v's adapter
getCurrentPrices(v, region) ==
    IF v = "azure" THEN azureGetCurrentPrices(region)
    ELSE [prices |-> currentPrices(region), err |-> NoError]

Ratio(num, den) == [num |-> num, den |-> den]

\* the spot prices of the requested zones that have one, added up, and their
\* number
RECURSIVE spotSum(_, _)
spotSum(spot, zones) ==
    IF zones = <<>> THEN 0
    ELSE (IF Head(zones) \in DOMAIN spot THEN spot[Head(zones)] ELSE 0)
             + spotSum(spot, Tail(zones))

RECURSIVE spotCount(_, _)
spotCount(spot, zones) ==
    IF zones = <<>> THEN 0
    ELSE (IF Head(zones) \in DOMAIN spot THEN 1 ELSE 0) + spotCount(spot, Tail(zones))

\* the sum divided by the number of zones requested
getPriceOverRequested(store, v, r, t, zones) ==
    LET got == Get(store, PriceKey(v, r, t))
    IN  IF ~got.found
        THEN [err |-> "NotFound", onDemand |-> 0, avgSpot |-> Ratio(0, 1)]
        ELSE [err |-> NoError, onDemand |-> got.val.OnDemandPrice,
              avgSpot |-> IF spotCount(got.val.SpotPrice, zones) = 0 THEN Ratio(0, 1)
                          ELSE Ratio(spotSum(got.val.SpotPrice, zones), Len(zones))]

\* ProductInfo.GetPrice
getPrice(store, v, r, t, zones) ==
    LET got == Get(store, PriceKey(v, r, t))
    IN  IF ~got.found
        THEN [err |-> "NotFound", onDemand |-> 0, avgSpot |-> Ratio(0, 1)]
        ELSE LET n == spotCount(got.val.SpotPrice, zones)
             IN  [err |-> NoError, onDemand |-> got.val.OnDemandPrice,
                  avgSpot |-> IF n = 0 THEN Ratio(0, 1)
                              ELSE Ratio(spotSum(got.val.SpotPrice, zones), n)]

\* the (region, instance type) pairs of a price table
entriesOf(tbl) == UNION {{<<r, t>> : t \in DOMAIN tbl[r]} : r \in DOMAIN tbl}

\* every Price of the table set under its price key
setPrices(store, v, tbl) ==
    LET keyOf(e) == PriceKey(v, e[1], e[2])
        written == {keyOf(e) : e \in entriesOf(tbl)}
    IN  [k \in DOMAIN store \cup written |->
            IF k \in written
            THEN LET e == CHOOSE e \in entriesOf(tbl) : keyOf(e) = k
                 IN  tbl[e[1]][e[2]]
            ELSE store[k]]

Call(op, v, r, t, zones) ==
    [op |-> op, vendor |-> v, region |-> r, type |-> t, zones |-> zones]

NoCall == Call("none", "", "", "", <<>>)

NoResponse == [err |-> NoError]

QueryIdle == vmAttrStore = <<>> /\ request = NoCall /\ response = NoResponse

QueryStart == QueryIdle

\* a renewal of vendor v: the table its Initialize returned is cached
CachePrices(v, tbl) ==
    /\ vmAttrStore' = setPrices(vmAttrStore, v, tbl)
    /\ request' = Call("Initialize", v, "", "", <<>>)
    /\ response' = NoResponse
    /\ UNCHANGED notQuery

\* GetPrice(provider, region, instanceType, zones)
AskPrice(v, r, t, zones) ==
    /\ request' = Call("GetPrice", v, r, t, zones)
    /\ response' = getPrice(vmAttrStore, v, r, t, zones)
    /\ UNCHANGED vmAttrStore
    /\ UNCHANGED notQuery

\* HasShortLivedPriceInfo() of vendor v's adapter
AskShortLived(v) ==
    /\ request' = Call("HasShortLivedPriceInfo", v, "", "", <<>>)
    /\ response' = [err |-> NoError, flag |-> hasShortLivedPriceInfo(v)]
    /\ UNCHANGED vmAttrStore
    /\ UNCHANGED notQuery

\* GetCurrentPrices(region) of vendor v's adapter
AskCurrentPrices(v, r) ==
    /\ request' = Call("GetCurrentPrices", v, r, "", <<>>)
    /\ response' = getCurrentPrices(v, r)
    /\ UNCHANGED vmAttrStore
    /\ UNCHANGED notQuery

---------------------------------------------------------------------------
(* Specifications.                                                         *)

Init == IngestInit /\ MtIdle /\ RgIdle /\ RenewIdle /\ QueryIdle

Next ==
    \/ GetRegionsFails
    \/ GetRegionsOk
    \/ RateCardFails
    \/ RateCardOk
    \/ LoopStep
    \/ ReturnPrices

Spec == Init /\ [][Next]_vars

MachineTypeInit == IngestIdle /\ MtInit /\ RgIdle /\ RenewIdle /\ QueryIdle

MachineTypeNext == Classify \/ ClassifyAgain \/ Expand

MachineTypeSpec == MachineTypeInit /\ [][MachineTypeNext]_vars

RegionInit == IngestIdle /\ MtIdle /\ RgInit /\ RenewIdle /\ QueryIdle

RegionNext == Resolve

RegionSpec == RegionInit /\ [][RegionNext]_vars

RenewalInit == IngestIdle /\ MtIdle /\ RgIdle /\ RenewInit /\ QueryIdle

RenewalNext ==
    \/ StartCycle
    \/ \E t \in refreshes : FetchOk(t)
    \/ \E t \in refreshes : FetchFails(t)
    \/ \E t \in refreshes : \E k \in AllKeys : WriteKey(t, k)
    \/ \E t \in refreshes : FinishRefresh(t)
    \/ \E t \in refreshes : SkipVendor(t)
    \/ \E k \in AllKeys : Read(k)

RenewalSpec == RenewalInit /\ [][RenewalNext]_vars

QueryInit == IngestIdle /\ MtIdle /\ RgIdle /\ RenewIdle /\ QueryStart

QueryNext ==
    \/ \E v \in Vendors : \E tbl \in PriceTables(v) : CachePrices(v, tbl)
    \/ \E v \in Vendors : \E r \in QueryRegions : \E t \in QueryTypes :
          \E zones \in ZoneLists : AskPrice(v, r, t, zones)
    \/ \E v \in Vendors : AskShortLived(v)
    \/ \E v \in Vendors : \E r \in QueryRegions : AskCurrentPrices(v, r)

QuerySpec == QueryInit /\ [][QueryNext]_vars


---------------------------------------------------------------------------
(* Properties of ingestion (specification Spec).                           *)

\* what the loop decided about the i-th meter of the list
OutcomeAt(i) == meterOutcome[meters[i], regions]

Accepted(i, region, instanceType, low) ==
    LET o == OutcomeAt(i)
    IN  o.kind = "accepted" /\ o.region = region /\ o.type = instanceType /\ o.low = low

\* the i-th meter is the last accepted one of its kind for its key
LastOfKind(i) ==
    LET o == OutcomeAt(i)
    IN  /\ o.kind = "accepted"
        /\ \A k \in (i + 1)..Len(meters) : ~Accepted(k, o.region, o.type, o.low)

\* the k-th meter is accepted for another type of the region and writes
\* instanceType as one of that type's variants
WritesAsVariant(k, region, instanceType) ==
    LET o == OutcomeAt(k)
    IN  /\ o.kind = "accepted" /\ o.region = region /\ o.type # instanceType
        /\ \E n \in 1..Len(o.mts) : o.mts[n] = instanceType

\* table[region][instanceType] carries both records' prices
Merged(table, region, instanceType, onDemand, spot) ==
    LET e == PriceAt(table, region, instanceType)
    IN  /\ region \in DOMAIN table /\ instanceType \in DOMAIN table[region]
        /\ e.OnDemandPrice = onDemand
        /\ region \in DOMAIN e.SpotPrice /\ e.SpotPrice[region] = spot

\* the iteration that just ran left the other field of its entry alone
KeepsOtherField ==
    (idx > 0 /\ outcome.kind = "accepted") =>
        LET was == PriceAt(prevPrices, outcome.region, outcome.type)
            now == PriceAt(allPrices, outcome.region, outcome.type)
        IN  IF outcome.low THEN now.OnDemandPrice = was.OnDemandPrice
            ELSE now.SpotPrice = was.SpotPrice

\* C1 as stated: whenever the list holds an accepted on-demand meter and an
\* accepted low-priority meter for the same (region, type), the returned table's
\* entry for that key carries the on-demand price of the one and the spot price
\* of the other, in either order of the two; and no iteration clears the field
\* the other kind of record wrote.
C1_MergePerKey ==
    /\ KeepsOtherField
    /\ pc = "returned" =>
         \A i, j \in 1..Len(meters) :
            LET od == OutcomeAt(i)
                lp == OutcomeAt(j)
            IN  (/\ LastOfKind(i) /\ ~od.low
                 /\ LastOfKind(j) /\ lp.low
                 /\ od.region = lp.region /\ od.type = lp.type)
                => Merged(allPrices, od.region, od.type, od.price, lp.price)

Min(a, b) == IF a < b THEN a ELSE b

\* C1 amended: the same, provided no accepted meter of another canonical type
\* that has t among its variants resolves to r and is processed after the
\* first of the two records.
C1_MergePerKeyUnlessVariantWritten ==
    /\ KeepsOtherField
    /\ pc = "returned" =>
         \A i, j \in 1..Len(meters) :
            LET od == OutcomeAt(i)
                lp == OutcomeAt(j)
            IN  (/\ LastOfKind(i) /\ ~od.low
                 /\ LastOfKind(j) /\ lp.low
                 /\ od.region = lp.region /\ od.type = lp.type
                 /\ \A k \in (Min(i, j) + 1)..Len(meters) :
                        ~WritesAsVariant(k, od.region, od.type))
                => Merged(allPrices, od.region, od.type, od.price, lp.price)

\* the low-priority record first, the on-demand record second, after a meter
\* that wrote the same key as a variant: both prices are in the entry
C1_Witness ==
    /\ pc = "returned" /\ Len(meters) = 3
    /\ WritesAsVariant(1, "eastus", "Standard_B1s")
    /\ Accepted(2, "eastus", "Standard_B1s", TRUE)
    /\ Accepted(3, "eastus", "Standard_B1s", FALSE)
    /\ Merged(allPrices, "eastus", "Standard_B1s", 5, 2)

\* C4: right after the loop has processed an accepted meter of region r and
\* canonical type t, table[r][t] holds the price that meter gave it and
\* table[r][v] holds the same Price for every variant v of t.
C4_VariantWriteThrough ==
    (idx > 0 /\ outcome.kind = "accepted") =>
        LET base == PriceAt(allPrices, outcome.region, outcome.type)
        IN  /\ outcome.region \in DOMAIN allPrices
            /\ outcome.type \in DOMAIN allPrices[outcome.region]
            /\ IF outcome.low
               THEN base.SpotPrice = (outcome.region :> outcome.price)
               ELSE base.OnDemandPrice = outcome.price
            /\ \A n \in 1..Len(outcome.mts) :
                  /\ outcome.mts[n] \in DOMAIN allPrices[outcome.region]
                  /\ allPrices[outcome.region][outcome.mts[n]] = base

\* a D-family meter processed after another accepted meter: six variants
C4_Witness ==
    /\ idx > 1 /\ outcome.kind = "accepted" /\ Len(outcome.mts) = 6
    /\ prevPrices # <<>>
    /\ PriceAt(allPrices, outcome.region, outcome.mts[6]).OnDemandPrice = 7

\* the rate tiers of a meter, added from the last to the first
RECURSIVE tierTotal(_, _)
tierTotal(rates, n) == IF n = 0 THEN 0 ELSE rates[n] + tierTotal(rates, n - 1)

\* C10: the unit price stored for an accepted meter is the sum of all its rate
\* tiers; with a single tier it is that tier's rate.
C10_SumOfTiers ==
    (idx > 0 /\ outcome.kind = "accepted") =>
        LET rates == meters[idx].rates
            e == PriceAt(allPrices, outcome.region, outcome.type)
            stored == IF outcome.low THEN e.SpotPrice[outcome.region] ELSE e.OnDemandPrice
        IN  /\ stored = tierTotal(rates, Len(rates))
            /\ Len(rates) = 1 => stored = rates[1]

\* a meter with three tiers, 1 + 1 + 2, stored as 4
C10_Witness ==
    /\ idx > 0 /\ outcome.kind = "accepted" /\ Len(meters[idx].rates) = 3
    /\ outcome.low
    /\ PriceAt(allPrices, outcome.region, outcome.type).SpotPrice[outcome.region] = 4

\* The two candidate ids the resolver is specified to try for a label: geo is
\* the geography code of the first token, mid the tokens after the first
\* (without the last one when it is a number n).
claimedCandidates(label) ==
    LET tokens == Split(ToLower(label), " ")
        geo == regionCodeMappings(tokens[1])
        last == tokens[Len(tokens)]
    IN  IF AtoiOk(last)
        THEN LET mid == Concat([i \in 1..(Len(tokens) - 2) |-> tokens[i + 1]])
             IN  <<geo \o mid \o last, mid \o geo \o last>>
        ELSE LET mid == Concat([i \in 1..(Len(tokens) - 1) |-> tokens[i + 1]])
             IN  <<geo \o mid, mid \o geo>>

Resolvable(label, regs) == \E n \in 1..2 : claimedCandidates(label)[n] \in regs

\* the meters C9 lists as rejected
Rejected(v, regs) ==
    \/ v.category # "Virtual Machines"
    \/ v.tags # 0
    \/ v.region = ""
    \/ Contains(v.sub, "(Windows)")
    \/ ~Resolvable(v.region, regs)
    \/ Len(Split(v.sub, " ")) < 2
    \/ Split(v.sub, " ")[2] \notin {"VM", "VM_Promo"}
    \/ Len(v.rates) = 0

RECURSIVE tableOf(_, _, _)
tableOf(ms, n, regs) ==
    IF n = 0 THEN <<>>
    ELSE IF Rejected(ms[n], regs) THEN tableOf(ms, n - 1, regs)
    ELSE processMeter(tableOf(ms, n - 1, regs), ms[n], regs)

\* C9 as stated: a rejected meter leaves the table as it was and does not
\* stop ingestion, and the returned table is the one the accepted meters
\* alone build.
C9_SkipAndContinue ==
    /\ (idx > 0 /\ Rejected(meters[idx], regions)) =>
          (pc \in {"loop", "returned"} /\ allPrices = prevPrices)
    /\ pc = "returned" => allPrices = tableOf(meters, Len(meters), regions)

\* the k-th meter is accepted in the region and writes table[region][name], as
\* its own canonical type or as one of its variants
Writes(k, region, name) ==
    LET o == OutcomeAt(k)
    IN  /\ o.kind = "accepted" /\ o.region = region
        /\ (o.type = name \/ \E n \in 1..Len(o.mts) : o.mts[n] = name)

\* table[region][v] and table[region][t] are both there and equal
SamePrice(table, region, t, v) ==
    /\ region \in DOMAIN table
    /\ t \in DOMAIN table[region] /\ v \in DOMAIN table[region]
    /\ table[region][v] = table[region][t]

\* C13 as stated: in the returned table, for every region r, every canonical
\* type t with an accepted meter in r and every variant v of t,
\* table[r][v] = table[r][t], whatever the order of the meters and also when
\* another accepted meter has v as its own canonical type.
C13_VariantsPricedAsCanonical ==
    pc = "returned" =>
        \A i \in 1..Len(meters) :
            LET o == OutcomeAt(i)
            IN  o.kind = "accepted" =>
                    \A n \in 1..Len(o.mts) : SamePrice(allPrices, o.region, o.type, o.mts[n])

\* C13 amended: the same for a variant v of t, provided no accepted meter of
\* another canonical type that is processed after the last accepted meter of t
\* in r writes table[r][t] or table[r][v].
C13_VariantsPricedAsCanonicalUnlessRewritten ==
    pc = "returned" =>
        \A i \in 1..Len(meters) :
            LET o == OutcomeAt(i)
            IN  o.kind = "accepted" =>
                    \A n \in 1..Len(o.mts) :
                        (\A k \in (i + 1)..Len(meters) :
                            \/ Accepted(k, o.region, o.type, TRUE)
                            \/ Accepted(k, o.region, o.type, FALSE)
                            \/ (~Writes(k, o.region, o.type) /\ ~Writes(k, o.region, o.mts[n])))
                        => SamePrice(allPrices, o.region, o.type, o.mts[n])

\* a meter whose own canonical type is Standard_B1s, then a meter of
\* Standard_B1, which has Standard_B1s as its variant: both names are priced 7
C13_Witness ==
    /\ pc = "returned" /\ Len(meters) = 2
    /\ Accepted(1, "eastus", "Standard_B1s", FALSE)
    /\ Accepted(2, "eastus", "Standard_B1", FALSE)
    /\ OutcomeAt(2).mts = <<"Standard_B1s">>
    /\ SamePrice(allPrices, "eastus", "Standard_B1", "Standard_B1s")
    /\ allPrices["eastus"]["Standard_B1s"].OnDemandPrice = 7

---------------------------------------------------------------------------
(* Properties of the normalizer and the resolver (specifications           *)
(* MachineTypeSpec and RegionSpec).                                        *)

\* C5 as stated: for every non-empty label the resolver returns the first of
\* the two candidates that is a known region, and an error, never an id, when
\* neither is; one-token labels included.
C5_RegionResolution ==
    (rgPc # "in" /\ rgLabel # "") =>
        LET c == claimedCandidates(rgLabel)
        IN  /\ ~rgOut.panic
            /\ IF c[1] \in rgRegions THEN rgOut = Found(c[1])
               ELSE IF c[2] \in rgRegions THEN rgOut = Found(c[2])
               ELSE rgOut.err

\* C6 as stated: classification returns a value for every raw SKU, and
\* classifying that value again returns it unchanged.
C6_ClassifyIdempotent ==
    /\ mtPc # "in" => ~mtOut.panic
    /\ mtPc \in {"reclassified", "expanded"} => (~mtTwice.panic /\ mtTwice.val = mtOut.val)

\* the family of a basic-tier SKU, title-cased, and its size
basicFamily(x) == ToUpperChar(Char(x, 1)) \o ToLower(SubSeq(x, 2, 5))

basicSize(x) == SubSeq(x, 7, Len(x))

\* C7 as stated: a SKU matching the basic-tier pattern becomes title-cased
\* family, "_", size; otherwise one matching the A-series pattern gets the
\* prefix "Standard_"; one matching neither is returned unchanged.
C7_FirstMatchingRule ==
    /\ transformMachineType("BASIC.A2") = Ret("Basic_A2")
    /\ transformMachineType("A3") = Ret("Standard_A3")
    /\ mtPc # "in" =>
         mtOut = Ret(IF MatchString(mtBasic, mtIn)
                     THEN basicFamily(mtIn) \o "_" \o basicSize(mtIn)
                     ELSE IF MatchString(mtStandardA, mtIn) THEN "Standard_" \o mtIn
                     ELSE mtIn)

\* where the version and promo part of a canonical name starts: at its second
\* underscore, or past its end
tailStart(mt) ==
    IF \E i \in 10..Len(mt) : Char(mt, i) = "_"
    THEN CHOOSE i \in 10..Len(mt) :
            Char(mt, i) = "_" /\ \A j \in 10..(i - 1) : Char(mt, j) # "_"
    ELSE Len(mt) + 1

\* the six names C8 gives for a D-family SKU
dFamilyNames(mt) ==
    LET k == tailStart(mt)
        tail == SubSeq(mt, k, Len(mt))
        size == SubSeq(mt, 11, k - 1)
        ds == "Standard_DS" \o size
    IN  <<"Standard_D" \o size \o "s" \o tail, ds \o tail, ds \o "-1" \o tail,
          ds \o "-2" \o tail, ds \o "-4" \o tail, ds \o "-8" \o tail>>

\* C8: a D-family SKU expands to exactly six names: the premium variant, the
\* DS form and the DS form with -1, -2, -4, -8, each keeping the SKU's trailing
\* version and promo part; for "Standard_D2" they are the six listed.
C8_DFamilyVariants ==
    (mtPc = "expanded" /\ MatchString(mtStandardD, mtOut.val)) =>
        /\ Len(mtVars) = 6
        /\ mtVars = dFamilyNames(mtOut.val)
        /\ mtOut.val = "Standard_D2" =>
              mtVars = <<"Standard_D2s", "Standard_DS2", "Standard_DS2-1",
                         "Standard_DS2-2", "Standard_DS2-4", "Standard_DS2-8">>

\* a versioned promo D-family SKU expanded
C8_Witness ==
    /\ mtPc = "expanded" /\ mtIn = "Standard_D2_v2_Promo"
    /\ Len(mtVars) = 6 /\ mtVars[3] = "Standard_DS2-1_v2_Promo"


---------------------------------------------------------------------------
(* Properties of the renewal manager (specification RenewalSpec).         *)

\* vendor v's refresh started by cycle c failed: it sits in Failed, or it was
\* the vendor's last refresh and none has started since
FailedIn(v, c) ==
    \/ \E t \in InFlight(v) : t.phase = "failed" /\ t.cycle = c
    \/ InFlight(v) = {} /\ lastRun[v] = [ok |-> FALSE, cycle |-> c]

\* vendor v's refresh started by cycle c wrote all its keys and ended, and
\* none has started since
SucceededIn(v, c) == InFlight(v) = {} /\ lastRun[v] = [ok |-> TRUE, cycle |-> c]

C3_AtMostOneInFlight ==
    \A v \in Vendors :
        /\ Cardinality(InFlight(v)) <= 1
        /\ v \in dropped => \A t \in InFlight(v) : t.cycle < cycle

\* a cycle's trigger dropped for a vendor still refreshing while the other
\* vendor's refresh, started by that cycle, runs beside it
C3_Witness ==
    \E v, w \in Vendors :
        /\ v # w /\ v \in dropped
        /\ \E t \in InFlight(v) : t.cycle < cycle
        /\ \E t \in InFlight(w) : t.cycle = cycle

---------------------------------------------------------------------------
(* Properties of the Price Query API and of the current-price calls       *)
(* (specification QuerySpec).                                             *)

\* the positions of the requested zones that have a recorded spot price
zonesWithData(spot, zones) == {i \in 1..Len(zones) : zones[i] \in DOMAIN spot}

\* the spot prices at those positions, added up
RECURSIVE sumAt(_, _, _)
sumAt(spot, zones, I) ==
    IF I = {} THEN 0
    ELSE LET i == CHOOSE i \in I : TRUE
         IN  spot[zones[i]] + sumAt(spot, zones, I \ {i})

\* C11: GetPrice fails with NotFound when no Price is cached under the key of
\* (vendor, region, instanceType); otherwise it returns the cached on-demand
\* price and, as avgSpot, the sum of the spot prices of the requested zones that
\* have one divided by the number of those zones (so one zone with data out of
\* two requested gives that zone's price), and zero without an error when no
\* requested zone has one.
C11_GetPriceAveragesZonesWithData ==
    request.op = "GetPrice" =>
        LET k == PriceKey(request.vendor, request.region, request.type)
        IN  IF k \notin DOMAIN vmAttrStore THEN response.err = "NotFound"
            ELSE LET p == vmAttrStore[k]
                     I == zonesWithData(p.SpotPrice, request.zones)
                     avg == response.avgSpot
                 IN  /\ response.err = NoError
                     /\ response.onDemand = p.OnDemandPrice
                     /\ avg.den > 0
                     /\ IF I = {} THEN avg.num = 0
                        ELSE avg.num * Cardinality(I)
                                 = sumAt(p.SpotPrice, request.zones, I) * avg.den
                     /\ (Len(request.zones) = 2 /\ Cardinality(I) = 1) =>
                           \A i \in I : avg.num = p.SpotPrice[request.zones[i]] * avg.den

\* two zones requested, one of them with a spot price of 6: the average is 6
C11_Witness ==
    /\ request = Call("GetPrice", "ec2", "eu-west-1", "m5.large",
                      <<"eu-west-1a", "eu-west-1b">>)
    /\ PriceKey("ec2", "eu-west-1", "m5.large") \in DOMAIN vmAttrStore
    /\ DOMAIN vmAttrStore[PriceKey("ec2", "eu-west-1", "m5.large")].SpotPrice = {"eu-west-1a"}
    /\ response = [err |-> NoError, onDemand |-> 10, avgSpot |-> Ratio(6, 1)]

\* the error kind UnsupportedOperation: the adapter's refusal to query prices
\* on the fly
UnsupportedOperation(err) == err = "azure prices cannot be queried on the fly"

\* what C12 says of the last call: the Azure adapter's flag is false, and a
\* current-price call on a vendor whose flag is false returns an error of kind
\* UnsupportedOperation and a nil price map, whatever the region and the state
CurrentPricesRefused ==
    /\ (request.op = "HasShortLivedPriceInfo" /\ request.vendor = "azure") =>
          response.flag = FALSE
    /\ (request.op = "GetCurrentPrices" /\ ~hasShortLivedPriceInfo(request.vendor)) =>
          /\ response.err # NoError /\ UnsupportedOperation(response.err)
          /\ response.prices = NilPrices
    /\ \A r \in QueryRegions :
          /\ azureGetCurrentPrices(r).err # NoError
          /\ azureGetCurrentPrices(r).prices = NilPrices

\* a step that is such a call leaves the Cache Store and everything else as it
\* was
CurrentPricesCallKeepsState ==
    (/\ request'.op \in {"HasShortLivedPriceInfo", "GetCurrentPrices"}
     /\ ~hasShortLivedPriceInfo(request'.vendor))
    => (vmAttrStore' = vmAttrStore /\ UNCHANGED notQuery)

\* C12: a current-price request against a vendor whose hasShortLivedPriceInfo
\* flag is false always fails with UnsupportedOperation and returns no prices,
\* for every region; the Azure adapter's flag is always false and its
\* GetCurrentPrices returns an error and a nil price map for every region,
\* without reading or changing any state.
C12_CurrentPricesUnsupported ==
    []CurrentPricesRefused /\ [][CurrentPricesCallKeepsState]_vars

\* current prices asked of Azure while prices of that region are cached
C12_Witness ==
    /\ request = Call("GetCurrentPrices", "azure", "eastus", "", <<>>)
    /\ PriceKey("azure", "eastus", "Standard_B1s") \in DOMAIN vmAttrStore
    /\ response.prices = NilPrices /\ response.err # NoError

=============================================================================
